---- MODULE Spec2Model ----
(***************************************************************************)
(* Model of api-config.js: the VolunteerAPI helper (ten-minute response    *)
(* cache in makeAPICall, the three source searches, geocodeLocation,       *)
(* searchAllSources, combineResults) and VolunteerScraper.scrapeSite.      *)
(* Time is Date.now() in milliseconds.  Every await of the source is a     *)
(* separate step; the code between two awaits is one atomic step.          *)
(***************************************************************************)
EXTENDS Integers, Sequences, FiniteSets, TLC

\* ------------------------------------------------------------------ bounds
\* direct callers of makeAPICall that may be in flight together
NumClients == 2
\* how many times the clock advances
MaxTicks == 3
\* fetch() calls the direct callers may issue in total
MaxCalls == 2
\* payloads in the list handed to combineResults
MaxPayloads == 2
\* opportunities in one such payload
MaxOpps == 2
\* public operations called one after the other
MaxOps == 2

\* --------------------------------------------------------------- constants
cacheTimeout == 10 * 60 * 1000

\* The clock advances by half a timeout, so that an entry is seen at age 0,
\* 5, 10, 15, ... minutes: the age of exactly cacheTimeout is among them.
TickMs == cacheTimeout \div 2

Undefined == "undefined"

\* the value of a result variable before the operation has returned
NotCalled == [pending |-> TRUE]
Returned(v) == "pending" \notin DOMAIN v

ClientName(n) == "client" \o ToString(n)
Clients == { ClientName(n) : n \in 1..NumClients }
Sources == {"vm", "js", "uw"}
OpCalls == Sources \cup {"geo"}     \* the makeAPICall invocation of each wrapper
Inv == Clients \cup OpCalls

\* Requests (url, options) and response bodies of the direct callers.
ClientRequests ==
  { <<"https://a.example/x", <<>>>>,
    <<"https://a.example/x", <<"Authorization", "Bearer k">>>>,
    <<"https://b.example/y", <<>>>> }
ClientBodies == {"body1", "body2"}

VARIABLES
  now,        \* Date.now()
  cache,      \* this.cache: cacheKey -> [data, timestamp]
  pc,         \* where each makeAPICall invocation stands
  key,        \* its cacheKey
  ret,        \* the value it resolved with, or the error it rejected with
  via,        \* "cache" when it was served from the cache, "network" when it fetched
  netCalls,   \* cacheKey -> number of fetch() calls issued for it
  apiResults, \* the argument of a direct combineResults call
  combined,   \* its return value, NotCalled before the call
  location,   \* the location (or address) argument of the public operations
  filters,    \* their filters argument
  opsDone,    \* public operations called so far
  opPc,       \* per wrapper (geocodeLocation, search<Source>): idle, awaiting, resolved
  opRet,      \* the value the wrapper resolved with
  aggPc,      \* searchAllSources: idle, awaiting (Promise.allSettled), resolved
  aggRet,     \* the value searchAllSources resolved with
  scrPc,      \* scrapeSite: idle, fetch, json, resolved
  scrHttp,    \* what its fetch did: none, ok, notok (non-2xx), error
  scrRet      \* the value scrapeSite resolved with

cacheVars == <<now, cache, pc, key, ret, via, netCalls>>
combineVars == <<apiResults, combined>>
opsVars == <<location, filters, opsDone, opPc, opRet, aggPc, aggRet, scrPc, scrHttp, scrRet>>
vars == <<cacheVars, combineVars, opsVars>>

\* ------------------------------------------------------------ makeAPICall
\* JSON.stringify(options) for options = {} or { headers: { name: value } };
\* a property whose value is undefined is left out by JSON.stringify.
JSONstringify(options) ==
  IF options = <<>> THEN "{}"
  ELSE IF options[2] = Undefined THEN "{\"headers\":{}}"
  ELSE "{\"headers\":{\"" \o options[1] \o "\":\"" \o options[2] \o "\"}}"

cacheKeyOf(url, options) == url \o JSONstringify(options)

Count(f, k) == IF k \in DOMAIN f THEN f[k] ELSE 0

Bump(f, k) == (k :> (Count(f, k) + 1)) @@ f      \* used by makeAPICall_Sliding

\* Fresh with the comparison off by one: an entry aged exactly cacheTimeout is served.
Fresh_Inclusive(entry, t) == t - entry.timestamp <= cacheTimeout

\* line 70: Date.now() - cached.timestamp < this.cacheTimeout
Fresh(entry, t) == t - entry.timestamp < cacheTimeout

\* lines 68-73: a live entry exists for the key
CacheLive(k) == k \in DOMAIN cache /\ Fresh(cache[k], now)

\* CacheSet replacing the whole map by the one new entry.
CacheSet_Replace(c, k, data, t) == (k :> [data |-> data, timestamp |-> t])

\* lines 92-95: this.cache.set(cacheKey, { data, timestamp: Date.now() })
CacheSet(c, k, data, t) == (k :> [data |-> data, timestamp |-> t]) @@ c

\* makeAPICall with a sliding expiry: a hit refreshes the entry's timestamp.
makeAPICall_Sliding(i, url, options) ==
  LET k == cacheKeyOf(url, options) IN
  /\ pc[i] = "idle"
  /\ key' = [key EXCEPT ![i] = k]
  /\ IF CacheLive(k)
       THEN /\ pc' = [pc EXCEPT ![i] = "resolved"]
            /\ ret' = [ret EXCEPT ![i] = cache[k].data]
            /\ via' = [via EXCEPT ![i] = "cache"]
            /\ cache' = CacheSet(cache, k, cache[k].data, now)
            /\ UNCHANGED netCalls
       ELSE /\ pc' = [pc EXCEPT ![i] = "fetch"]
            /\ via' = [via EXCEPT ![i] = "network"]
            /\ netCalls' = Bump(netCalls, k)
            /\ UNCHANGED <<ret, cache>>
  /\ UNCHANGED now

\* lines 65-83 for each invocation of S, run back to back with no await in
\* between: the synchronous part of makeAPICall up to `await fetch(...)`, or the
\* whole call when the cache holds a live entry.  k[i] is the cacheKey of i.
StartCalls(S, k) ==
  LET Missed == { i \in S : ~CacheLive(k[i]) } IN
  /\ \A i \in S : pc[i] = "idle"
  /\ key' = [i \in Inv |-> IF i \in S THEN k[i] ELSE key[i]]
  /\ pc' = [i \in Inv |-> IF i \in S
                             THEN (IF i \in Missed THEN "fetch" ELSE "resolved")
                             ELSE pc[i]]
  /\ ret' = [i \in Inv |-> IF i \in S \ Missed THEN cache[k[i]].data ELSE ret[i]]
  /\ via' = [i \in Inv |-> IF i \in S
                              THEN (IF i \in Missed THEN "network" ELSE "cache")
                              ELSE via[i]]
  /\ netCalls' = [x \in DOMAIN netCalls \cup { k[i] : i \in Missed } |->
                    Count(netCalls, x) + Cardinality({ i \in Missed : k[i] = x })]
  /\ UNCHANGED <<cache, now>>

\* lines 64-83: one makeAPICall(url, options) started by invocation i
makeAPICall(i, url, options) == StartCalls({i}, (i :> cacheKeyOf(url, options)))

\* line 76 resolves with a response whose ok is true; line 89 starts response.json()
FetchOk(i) ==
  /\ pc[i] = "fetch"
  /\ pc' = [pc EXCEPT ![i] = "json"]
  /\ UNCHANGED <<now, cache, key, ret, via, netCalls, combineVars, opsVars>>

\* lines 85-87, 98-101: response.ok is false, the call rejects
FetchNotOk(i) ==
  /\ pc[i] = "fetch"
  /\ pc' = [pc EXCEPT ![i] = "rejected"]
  /\ ret' = [ret EXCEPT ![i] = "HTTP error"]
  /\ UNCHANGED <<now, cache, key, via, netCalls, combineVars, opsVars>>

\* lines 76, 98-101: fetch itself rejects (network error)
FetchError(i) ==
  /\ pc[i] = "fetch"
  /\ pc' = [pc EXCEPT ![i] = "rejected"]
  /\ ret' = [ret EXCEPT ![i] = "network error"]
  /\ UNCHANGED <<now, cache, key, via, netCalls, combineVars, opsVars>>

\* lines 89-97: the body parsed, the result is cached and returned
JsonOk(i, data) ==
  /\ pc[i] = "json"
  /\ cache' = CacheSet(cache, key[i], data, now)
  /\ pc' = [pc EXCEPT ![i] = "resolved"]
  /\ ret' = [ret EXCEPT ![i] = data]
  /\ UNCHANGED <<now, key, via, netCalls, combineVars, opsVars>>

\* JsonFail caching the failure (a store moved out of the try's success path).
JsonFail_Caches(i) ==
  /\ pc[i] = "json"
  /\ cache' = CacheSet(cache, key[i], "parse error", now)
  /\ pc' = [pc EXCEPT ![i] = "rejected"]
  /\ ret' = [ret EXCEPT ![i] = "parse error"]
  /\ UNCHANGED <<now, key, via, netCalls, combineVars, opsVars>>

\* lines 89, 98-101: response.json() rejects (malformed body)
JsonFail(i) ==
  /\ pc[i] = "json"
  /\ pc' = [pc EXCEPT ![i] = "rejected"]
  /\ ret' = [ret EXCEPT ![i] = "parse error"]
  /\ UNCHANGED <<now, cache, key, via, netCalls, combineVars, opsVars>>

\* the clock advances
Tick ==
  /\ now < MaxTicks * TickMs
  /\ now' = now + TickMs
  /\ UNCHANGED <<cache, pc, key, ret, via, netCalls, combineVars, opsVars>>

\* --------------------------------------------- direct callers of makeAPICall
TotalCalls == LET RECURSIVE Sum(_)
                  Sum(S) == IF S = {} THEN 0
                            ELSE LET k == CHOOSE x \in S : TRUE
                                 IN netCalls[k] + Sum(S \ {k})
              IN Sum(DOMAIN netCalls)

ClientCall(i) ==
  /\ TotalCalls < MaxCalls
  /\ \E r \in ClientRequests : makeAPICall(i, r[1], r[2])
  /\ UNCHANGED <<combineVars, opsVars>>

\* the caller takes the settled result; the invocation slot is free again
ClientReturn(i) ==
  /\ pc[i] \in {"resolved", "rejected"}
  /\ pc' = [pc EXCEPT ![i] = "idle"]
  /\ key' = [key EXCEPT ![i] = ""]
  /\ ret' = [ret EXCEPT ![i] = Undefined]
  /\ via' = [via EXCEPT ![i] = "none"]
  /\ UNCHANGED <<now, cache, netCalls, combineVars, opsVars>>

InitCache ==
  /\ now = 0
  /\ cache = <<>>
  /\ pc = [i \in Inv |-> "idle"]
  /\ key = [i \in Inv |-> ""]
  /\ ret = [i \in Inv |-> Undefined]
  /\ via = [i \in Inv |-> "none"]
  /\ netCalls = <<>>

\* no public operation has been called
InitOpsIdle ==
  /\ opsDone = 0
  /\ opPc = [o \in OpCalls |-> "idle"]
  /\ opRet = [o \in OpCalls |-> NotCalled]
  /\ aggPc = "idle"
  /\ aggRet = NotCalled
  /\ scrPc = "idle"
  /\ scrHttp = "none"
  /\ scrRet = NotCalled

InitCombineIdle ==
  /\ apiResults = <<>>
  /\ combined = NotCalled

Init ==
  /\ InitCache
  /\ InitCombineIdle
  /\ InitOpsIdle
  /\ location = ""
  /\ filters = <<>>

Next ==
  \/ \E i \in Clients : ClientCall(i)
  \/ \E i \in Clients : FetchOk(i)
  \/ \E i \in Clients : FetchNotOk(i)
  \/ \E i \in Clients : FetchError(i)
  \/ \E i \in Clients, data \in ClientBodies : JsonOk(i, data)
  \/ \E i \in Clients : JsonFail(i)
  \/ \E i \in Clients : ClientReturn(i)
  \/ Tick

Spec == Init /\ [][Next]_vars

\* ---------------------------------------------------------- combineResults
\* line 271: const key = `${opp.title}-${opp.organization}`
dedupKey_TitleOnly(opp) == opp.title

dedupKey(opp) == opp.title \o "-" \o opp.organization

\* lines 270-276: the inner forEach over one payload's opportunities;
\* acc = [seen, combined]
RECURSIVE forEachOpp(_, _)
forEachOpp(opps, acc) ==
  IF opps = <<>> THEN acc
  ELSE LET opp == Head(opps)
           k == dedupKey(opp)
       IN forEachOpp(Tail(opps),
                     IF k \in acc.seen THEN acc
                     ELSE [seen |-> acc.seen \cup {k},
                           combined |-> Append(acc.combined, opp)])

\* line 269: if (result.opportunities); an array, even an empty one, is truthy
HasOpportunities(result) == "opportunities" \in DOMAIN result

\* lines 268-278: the outer forEach over the payloads
RECURSIVE forEachResult(_, _)
forEachResult(results, acc) ==
  IF results = <<>> THEN acc
  ELSE LET result == Head(results)
       IN forEachResult(Tail(results),
                        IF HasOpportunities(result)
                          THEN forEachOpp(result.opportunities, acc)
                          ELSE acc)

\* combineResults keeping the last occurrence of a key instead of the first
combineResults_LastWins(results) ==
  LET RECURSIVE Rev(_)
      Rev(q) == IF q = <<>> THEN <<>> ELSE Append(Rev(Tail(q)), Head(q))
      RevPayload(r) == IF HasOpportunities(r)
                         THEN [opportunities |-> Rev(r.opportunities)] ELSE r
      revIn == Rev([n \in 1..Len(results) |-> RevPayload(results[n])])
  IN [opportunities |-> Rev(forEachResult(revIn, [seen |-> {}, combined |-> <<>>]).combined)]

\* lines 264-281
combineResults(results) ==
  [opportunities |-> forEachResult(results, [seen |-> {}, combined |-> <<>>]).combined]

\* Opportunities handed to combineResults directly.  Other fields than title
\* and organization are passed through; id stands for them.
Opp(id, title, organization) ==
  [id |-> id, title |-> title, organization |-> organization]

CombineOpps ==
  { Opp("1", "Food-Bank", "Drive"),
    Opp("2", "Food", "Bank-Drive"),
    Opp("3", "Food-Bank", "Drive"),
    Opp("4", "Food", "Drive") }

SeqsUpTo(S, n) == UNION { [1..m -> S] : m \in 0..n }

\* a payload has an opportunities array, or lacks the field
CombinePayloads ==
  { [opportunities |-> q] : q \in SeqsUpTo(CombineOpps, MaxOpps) }
    \cup { [error |-> "no results"] }

InitCombine ==
  /\ InitCache
  /\ InitOpsIdle
  /\ location = ""
  /\ filters = <<>>
  /\ apiResults \in SeqsUpTo(CombinePayloads, MaxPayloads)
  /\ combined = NotCalled

CallCombineResults ==
  /\ combined = NotCalled
  /\ combined' = combineResults(apiResults)
  /\ UNCHANGED <<apiResults, cacheVars, opsVars>>

NextCombine == CallCombineResults

SpecCombine == InitCombine /\ [][NextCombine]_vars

\* ------------------------------------------------- the public operations
\* a property of a JS object; Undefined when the object lacks it
Get(obj, name) == IF name \in DOMAIN obj THEN obj[name] ELSE Undefined

\* a || b on strings: undefined and "" are falsy
Or(a, b) == IF a \in {Undefined, ""} THEN b ELSE a

\* JSON null as a response body
JsonNull == [isNull |-> TRUE]
IsNull(v) == "isNull" \in DOMAIN v

\* the value geocodeLocation returns for "no location"
Null == JsonNull

\* Inputs.  No location needs percent-encoding in a query string.
Locations == {"20001", "Arlington"}
FiltersSet == { <<>>, [category |-> ""], [category |-> "education"] }

\* lines 200-203: the first 5-digit word of the text, else "22201"
extractZipCode(loc) == IF loc \in {"20001"} THEN loc ELSE "22201"

\* lines 205-219
mapCategoryToJustServe(category) ==
  LET mapping == [education |-> "1", environment |-> "2", health |-> "3",
                  community |-> "4", seniors |-> "5", animals |-> "6",
                  disaster |-> "7", homeless |-> "8", youth |-> "9", arts |-> "10"]
  IN IF category \in DOMAIN mapping THEN mapping[category] ELSE ""

\* the parameters `...filters` appends: category is already a parameter of the
\* VolunteerMatch query and keeps its place there; elsewhere it is added last
SpreadParam(f) ==
  IF "category" \in DOMAIN f THEN "&category=" \o f.category ELSE ""

\* lines 106-114, 130-137, 153-160: the request URL of each source
SourceUrl(s, loc, f) ==
  CASE s = "vm" -> "https://api.volunteermatch.org/search?location=" \o loc
                     \o "&radius=25&category=" \o Or(Get(f, "category"), "")
                     \o "&resultsPerPage=20"
    [] s = "js" -> "https://www.justserve.org/api/opportunities?zipCode="
                     \o extractZipCode(loc) \o "&miles=25&categoryId="
                     \o mapCategoryToJustServe(Get(f, "category")) \o SpreadParam(f)
    [] s = "uw" -> "https://api.unitedway.org/volunteer-opportunities?location=" \o loc
                     \o "&radius=25&cause=" \o Or(Get(f, "category"), "") \o SpreadParam(f)

\* lines 8, 19, 29: process.env.*_API_KEY, unset here
apiKey == Undefined

\* lines 118-120, 141-143, 164-166: the one header each source sends
SourceOptions(s) ==
  CASE s = "vm" -> <<"Authorization", "Bearer " \o apiKey>>
    [] s = "js" -> <<"X-API-Key", apiKey>>
    [] s = "uw" -> <<"Authorization", "Bearer " \o apiKey>>

SourceKey(s) == cacheKeyOf(SourceUrl(s, location, filters), SourceOptions(s))

\* lines 176-182
GeoUrl(address) ==
  "https://nominatim.openstreetmap.org/search?q=" \o address \o "&format=json&limit=1"

\* getFallbackData ignoring its arguments
getFallbackData_Fixed(loc, f) ==
  [opportunities |-> <<
    [id |-> "fallback-1",
     title |-> "Community Cleanup Event",
     organization |-> "Local Environmental Group",
     category |-> "environment",
     description |-> "Help clean up local parks and waterways.",
     date |-> "This Weekend",
     time |-> "9:00 AM - 1:00 PM",
     location |-> "Arlington",
     skills |-> "None required",
     contact |-> "info@localenv.org"] >>]

\* lines 222-240
getFallbackData(loc, f) ==
  [opportunities |-> <<
    [id |-> "fallback-1",
     title |-> "Community Cleanup Event",
     organization |-> "Local Environmental Group",
     category |-> Or(Get(f, "category"), "environment"),
     description |-> "Help clean up local parks and waterways.",
     date |-> "This Weekend",
     time |-> "9:00 AM - 1:00 PM",
     location |-> loc,
     skills |-> "None required",
     contact |-> "info@localenv.org"] >>]

\* Response bodies of the sources: two records with one (title, organization)
\* and different ids, a record with the title and organization of the fallback
\* record, a body without the field, and JSON null.
SourceBodies ==
  { [opportunities |-> << Opp("vm-1", "Tutoring", "Library") >>],
    [opportunities |-> << Opp("js-7", "Tutoring", "Library"),
                          Opp("js-9", "Community Cleanup Event",
                              "Local Environmental Group") >>],
    [message |-> "no results"],
    JsonNull }

\* parseFloat on the coordinate strings the geocoder sends (in 1/100 degree)
parseFloat(str) ==
  CASE str = "38.88" -> 3888
    [] str = "-77.09" -> -7709
    [] OTHER -> "NaN"

\* the geocoder answers with a JSON array of matches (held in field array), or null
GeoBodies ==
  { [array |-> <<>>], [array |-> << [lat |-> "38.88", lon |-> "-77.09"] >>], JsonNull }

\* no public operation is running
Quiet ==
  /\ \A o \in OpCalls : opPc[o] = "idle" /\ pc[o] = "idle"
  /\ aggPc = "idle"
  /\ scrPc = "idle"

\* lines 175-185: geocodeLocation up to its await
CallGeocodeLocation ==
  /\ Quiet /\ opsDone < MaxOps
  /\ makeAPICall("geo", GeoUrl(location), <<>>)
  /\ opPc' = [opPc EXCEPT !["geo"] = "awaiting"]
  /\ opsDone' = opsDone + 1
  /\ UNCHANGED <<location, filters, opRet, aggPc, aggRet, scrPc, scrHttp, scrRet, combineVars>>

\* lines 186-196: the rest of geocodeLocation, once makeAPICall has settled
GeocodeSettle ==
  /\ opPc["geo"] = "awaiting"
  /\ pc["geo"] \in {"resolved", "rejected"}
  /\ opRet' = [opRet EXCEPT !["geo"] =
                 IF pc["geo"] = "resolved" /\ ~IsNull(ret["geo"])
                      /\ Len(ret["geo"].array) > 0
                   THEN [lat |-> parseFloat(ret["geo"].array[1].lat),
                         lng |-> parseFloat(ret["geo"].array[1].lon)]
                   ELSE Null]
  /\ opPc' = [opPc EXCEPT !["geo"] = "resolved"]
  /\ UNCHANGED <<cacheVars, combineVars, location, filters, opsDone, aggPc, aggRet,
                 scrPc, scrHttp, scrRet>>

\* lines 105-121, 129-144, 152-167: one source search, called on its own
CallSearchSource(s) ==
  /\ Quiet /\ opsDone < MaxOps
  /\ makeAPICall(s, SourceUrl(s, location, filters), SourceOptions(s))
  /\ opPc' = [opPc EXCEPT ![s] = "awaiting"]
  /\ opsDone' = opsDone + 1
  /\ UNCHANGED <<location, filters, opRet, aggPc, aggRet, scrPc, scrHttp, scrRet, combineVars>>

\* a source search whose catch returns an empty payload instead of the fallback
SourceSettle_EmptyOnFailure(s) ==
  /\ opPc[s] = "awaiting"
  /\ pc[s] \in {"resolved", "rejected"}
  /\ opRet' = [opRet EXCEPT ![s] =
                 IF pc[s] = "resolved" THEN ret[s] ELSE [opportunities |-> <<>>]]
  /\ opPc' = [opPc EXCEPT ![s] = "resolved"]
  /\ UNCHANGED <<cacheVars, combineVars, location, filters, opsDone, aggPc, aggRet,
                 scrPc, scrHttp, scrRet>>

\* lines 116-125, 139-148, 162-171: `return await this.makeAPICall(...)` resumes:
\* the data, or the fallback payload when the call rejected
SourceSettle(s) ==
  /\ opPc[s] = "awaiting"
  /\ pc[s] \in {"resolved", "rejected"}
  /\ opRet' = [opRet EXCEPT ![s] =
                 IF pc[s] = "resolved" THEN ret[s] ELSE getFallbackData(location, filters)]
  /\ opPc' = [opPc EXCEPT ![s] = "resolved"]
  /\ UNCHANGED <<cacheVars, combineVars, location, filters, opsDone, aggPc, aggRet,
                 scrPc, scrHttp, scrRet>>

\* lines 243-251: searchAllSources calls the three searches, each running to its
\* first await, and then awaits Promise.allSettled
CallSearchAllSources ==
  /\ Quiet /\ opsDone < MaxOps
  /\ StartCalls(Sources, [s \in Sources |-> SourceKey(s)])
  /\ opPc' = [o \in OpCalls |-> IF o \in Sources THEN "awaiting" ELSE opPc[o]]
  /\ aggPc' = "awaiting"
  /\ opsDone' = opsDone + 1
  /\ UNCHANGED <<location, filters, opRet, aggRet, scrPc, scrHttp, scrRet, combineVars>>

SourceOrder == <<"vm", "js", "uw">>

\* lines 252-254: the values of the fulfilled promises, in the order of `promises`
successfulResults ==
  LET fulfilled == SelectSeq(SourceOrder, LAMBDA s : opPc[s] = "resolved")
  IN [n \in 1..Len(fulfilled) |-> opRet[fulfilled[n]]]

\* line 269 on a null payload: reading a property of null throws a TypeError
combineThrows(results) == \E n \in 1..Len(results) : IsNull(results[n])

\* searchAllSources resolving as soon as one search has settled
AllSettled_Race ==
  /\ aggPc = "awaiting"
  /\ \E s \in Sources : opPc[s] \in {"resolved", "rejected"}
  /\ aggRet' = IF combineThrows(successfulResults)
                 THEN getFallbackData(location, filters)
                 ELSE combineResults(successfulResults)
  /\ aggPc' = "resolved"
  /\ UNCHANGED <<cacheVars, combineVars, location, filters, opsDone, opPc, opRet,
                 scrPc, scrHttp, scrRet>>

\* lines 251-261: Promise.allSettled resolves once every search has settled;
\* the results are combined, and the outer catch returns the fallback payload
AllSettled ==
  /\ aggPc = "awaiting"
  /\ \A s \in Sources : opPc[s] \in {"resolved", "rejected"}
  /\ aggRet' = IF combineThrows(successfulResults)
                 THEN getFallbackData(location, filters)
                 ELSE combineResults(successfulResults)
  /\ aggPc' = "resolved"
  /\ UNCHANGED <<cacheVars, combineVars, location, filters, opsDone, opPc, opRet,
                 scrPc, scrHttp, scrRet>>

\* the transport never answers: no timeout is set on fetch or response.json()
Hang(i) ==
  /\ pc[i] \in {"fetch", "json"}
  /\ pc' = [pc EXCEPT ![i] = "hung"]
  /\ UNCHANGED <<now, cache, key, ret, via, netCalls, combineVars, opsVars>>

\* ----------------------------------------------------------- scrapeSite
\* What the proxy's body holds: contents is the page, here the list of the
\* elements matching selectors.container with the text of their sub-elements.
Card(title, organization) == [title |-> title, organization |-> organization]

ScrapeBodies ==
  { [contents |-> <<>>],
    [contents |-> << Card("", "Parks Dept"), Card("Beach Cleanup", "Parks Dept") >>],
    [status |-> "error"] }

\* lines 296-318: parse, select, build the records, drop those without a title
RECURSIVE scrapeCards(_, _, _)
scrapeCards(cards, index, t) ==
  IF cards = <<>> THEN <<>>
  ELSE LET opportunity ==
             [id |-> "scraped-" \o ToString(t) \o "-" \o ToString(index),
              title |-> Head(cards).title,
              organization |-> Head(cards).organization]
       IN (IF opportunity.title # "" THEN <<opportunity>> ELSE <<>>)
            \o scrapeCards(Tail(cards), index + 1, t)

\* a body without contents parses as the text "undefined": no element matches
scrapeBody(data, t) ==
  IF "contents" \in DOMAIN data THEN scrapeCards(data.contents, 0, t) ELSE <<>>

\* lines 290-294: scrapeSite up to `await fetch(...)`
CallScrapeSite ==
  /\ Quiet /\ opsDone < MaxOps
  /\ scrPc' = "fetch"
  /\ opsDone' = opsDone + 1
  /\ UNCHANGED <<cacheVars, combineVars, location, filters, opPc, opRet, aggPc, aggRet,
                 scrHttp, scrRet>>

\* line 292 resolves; response.ok is not looked at; line 295 starts response.json()
ScrapeFetchResolves(ok) ==
  /\ scrPc = "fetch"
  /\ scrPc' = "json"
  /\ scrHttp' = IF ok THEN "ok" ELSE "notok"
  /\ UNCHANGED <<cacheVars, combineVars, location, filters, opsDone, opPc, opRet,
                 aggPc, aggRet, scrRet>>

\* lines 292, 319-322: fetch rejects, the catch returns []
ScrapeFetchError ==
  /\ scrPc = "fetch"
  /\ scrPc' = "resolved"
  /\ scrHttp' = "error"
  /\ scrRet' = [list |-> <<>>]
  /\ UNCHANGED <<cacheVars, combineVars, location, filters, opsDone, opPc, opRet,
                 aggPc, aggRet>>

\* lines 295-318: the body parsed
ScrapeJsonOk(data) ==
  /\ scrPc = "json"
  /\ scrPc' = "resolved"
  /\ scrRet' = [list |-> scrapeBody(data, now)]
  /\ UNCHANGED <<cacheVars, combineVars, location, filters, opsDone, opPc, opRet,
                 aggPc, aggRet, scrHttp>>

\* lines 295, 319-322: response.json() rejects, the catch returns []
ScrapeJsonFail ==
  /\ scrPc = "json"
  /\ scrPc' = "resolved"
  /\ scrRet' = [list |-> <<>>, parseFailed |-> TRUE]
  /\ UNCHANGED <<cacheVars, combineVars, location, filters, opsDone, opPc, opRet,
                 aggPc, aggRet, scrHttp>>

\* the caller takes the result of the public operation; the next one may start
OpReturn ==
  /\ \/ aggPc = "resolved"
     \/ aggPc = "idle" /\ \E o \in OpCalls : opPc[o] = "resolved"
     \/ scrPc = "resolved"
  /\ pc' = [i \in Inv |-> IF i \in OpCalls THEN "idle" ELSE pc[i]]
  /\ key' = [i \in Inv |-> IF i \in OpCalls THEN "" ELSE key[i]]
  /\ ret' = [i \in Inv |-> IF i \in OpCalls THEN Undefined ELSE ret[i]]
  /\ via' = [i \in Inv |-> IF i \in OpCalls THEN "none" ELSE via[i]]
  /\ opPc' = [o \in OpCalls |-> "idle"]
  /\ opRet' = [o \in OpCalls |-> NotCalled]
  /\ aggPc' = "idle"
  /\ aggRet' = NotCalled
  /\ scrPc' = "idle"
  /\ scrHttp' = "none"
  /\ scrRet' = NotCalled
  /\ UNCHANGED <<now, cache, netCalls, combineVars, location, filters, opsDone>>

BodiesOf(i) == IF i = "geo" THEN GeoBodies ELSE SourceBodies

InitOps ==
  /\ InitCache
  /\ InitCombineIdle
  /\ InitOpsIdle
  /\ location \in Locations
  /\ filters \in FiltersSet

\* A continuation of a settled promise is queued (a microtask): the event loop
\* runs it before it delivers the next network event or timer.
MicrotaskPending ==
  \/ \E o \in OpCalls : opPc[o] = "awaiting" /\ pc[o] \in {"resolved", "rejected"}
  \/ aggPc = "awaiting" /\ \A s \in Sources : opPc[s] \in {"resolved", "rejected"}

\* The operations are called one after the other inside one cache window (the
\* clock does not advance here; expiry is the business of Spec).
\* the network answers (or stops answering) one of the calls of I
Network(I) ==
  \/ \E i \in I : ~MicrotaskPending /\ FetchOk(i)
  \/ \E i \in I : ~MicrotaskPending /\ FetchNotOk(i)
  \/ \E i \in I : ~MicrotaskPending /\ FetchError(i)
  \/ \E i \in I : \E data \in BodiesOf(i) : ~MicrotaskPending /\ JsonOk(i, data)
  \/ \E i \in I : ~MicrotaskPending /\ JsonFail(i)
  \/ \E i \in I : ~MicrotaskPending /\ Hang(i)

\* searchAllSources called again and again on one VolunteerAPI
NextSearch ==
  \/ CallSearchAllSources
  \/ \E s \in Sources : SourceSettle(s)
  \/ AllSettled
  \/ Network(Sources)
  \/ OpReturn

SpecSearch == InitOps /\ [][NextSearch]_vars

\* every public operation, called one after the other
NextOps ==
  \/ NextSearch
  \/ CallGeocodeLocation
  \/ GeocodeSettle
  \/ \E s \in Sources : CallSearchSource(s)
  \/ Network({"geo"})
  \/ CallScrapeSite
  \/ \E ok \in BOOLEAN : ScrapeFetchResolves(ok)
  \/ ScrapeFetchError
  \/ \E data \in ScrapeBodies : ScrapeJsonOk(data)
  \/ ScrapeJsonFail

SpecOps == InitOps /\ [][NextOps]_vars

\* The continuations of settled promises are run by the event loop: a search
\* whose call has settled resumes, and so does searchAllSources once every
\* search has.  Nothing makes the network answer.
SpecSearchFair ==
  /\ SpecSearch
  /\ \A s \in Sources : WF_vars(SourceSettle(s))
  /\ WF_vars(AllSettled)

\* ===================================================== claims on the cache
InFlight == {"fetch", "json"}

\* invocation i takes its first step (the cache lookup) in this step
Starts(i) == pc[i] = "idle" /\ pc'[i] # "idle"

\* C1: an invocation made while the entry stored for its key is less than
\* cacheTimeout (10 minutes) old issues no network call, so a miss followed by
\* calls inside the window costs exactly one fetch in total; an invocation made
\* once the entry is cacheTimeout old or older (or absent) issues exactly one
\* more; nothing else issues network calls.
C1_OneFetchPerWindow ==
  [][ /\ \A i \in Inv : Starts(i) =>
           LET k == key'[i] IN
             /\ (k \in DOMAIN cache /\ now - cache[k].timestamp < cacheTimeout)
                  => Count(netCalls', k) = Count(netCalls, k)
             /\ (k \notin DOMAIN cache \/ now - cache[k].timestamp >= cacheTimeout)
                  => Count(netCalls', k) = Count(netCalls, k) + 1
      /\ (netCalls' # netCalls => \E i \in Inv : Starts(i))
    ]_vars

\* a key fetched once, served from the cache at age 5 minutes to one caller,
\* and fetched a second time by another caller once the entry is 10 minutes old
C1_Witness ==
  \E i, j \in Inv :
    /\ pc[i] = "resolved" /\ via[i] = "cache"
    /\ pc[j] = "fetch" /\ key[j] = key[i]
    /\ key[j] \in DOMAIN cache
    /\ now - cache[key[j]].timestamp = cacheTimeout
    /\ netCalls[key[j]] = 2

\* C6: the step in which an invocation rejects (network error, non-2xx status,
\* unparsable body) leaves the cache map unchanged, and so does the step that
\* issued its fetch: a failed call stores nothing.
C6_FailedCallsNotCached ==
  [][ \A i \in Inv :
        (pc[i] \in InFlight /\ pc'[i] = "rejected") \/ (Starts(i) /\ pc'[i] = "fetch")
          => cache' = cache ]_vars

\* an invocation failed at the parse step and its key has no entry
C6_Witness ==
  \E i \in Inv : pc[i] = "rejected" /\ ret[i] = "parse error" /\ key[i] \notin DOMAIN cache

\* C7 as stated: while one invocation is between its cache lookup and its cache
\* store, no other makeAPICall invocation takes a step.
C7_LookupToStoreAtomic ==
  [][ \A i \in Inv : pc[i] \in InFlight =>
        \A j \in Inv \ {i} : pc'[j] = pc[j] \/ pc[j] \in {"resolved", "rejected"} ]_vars

\* C7 amended: only the two synchronous segments are atomic.  The cache changes
\* only in the single step in which an invocation whose body has parsed stores
\* it, and that step writes exactly the invocation's own key with the parsed
\* body and the current time; the lookup step changes nothing.
C7_StoreStepAtomic ==
  [][ cache' # cache =>
        \E i \in Inv :
          /\ pc[i] = "json" /\ pc'[i] = "resolved"
          /\ cache' = (key[i] :> [data |-> ret'[i], timestamp |-> now]) @@ cache
          /\ \A j \in Inv \ {i} : pc'[j] = pc[j] ]_vars

\* two invocations with the same key are in flight together, and the entry one
\* of them will overwrite was stored after the other's lookup
C7_Witness ==
  \E i, j \in Inv :
    /\ i # j /\ key[i] = key[j]
    /\ pc[i] = "resolved" /\ via[i] = "network"
    /\ pc[j] = "json" /\ key[j] \in DOMAIN cache

\* C9: the lookup step never changes the cache (a hit does not refresh the
\* timestamp); it serves the entry exactly when now < timestamp + cacheTimeout,
\* and then returns the stored data; no step removes a key from the cache.
C9_HitLeavesCacheAlone ==
  [][ /\ DOMAIN cache \subseteq DOMAIN cache'
      /\ \A i \in Inv : Starts(i) =>
           LET k == key'[i] IN
             /\ cache' = cache
             /\ pc'[i] = "resolved"
                  <=> (k \in DOMAIN cache /\ now < cache[k].timestamp + cacheTimeout)
             /\ pc'[i] = "resolved" => ret'[i] = cache[k].data
    ]_vars

\* an invocation served from the cache at age 5 minutes: the entry still carries
\* the timestamp of its store, and a second key is cached beside it
C9_Witness ==
  \E i \in Inv :
    /\ pc[i] = "resolved" /\ via[i] = "cache"
    /\ ret[i] = cache[key[i]].data
    /\ now - cache[key[i]].timestamp = TickMs
    /\ netCalls[key[i]] = 1
    /\ Cardinality(DOMAIN cache) = 2

\* ================================================ claims on combineResults
\* the flattened input: payloads in list order, opportunities in payload order
RECURSIVE Flatten(_)
Flatten(results) ==
  IF results = <<>> THEN <<>>
  ELSE (IF "opportunities" \in DOMAIN Head(results)
          THEN Head(results).opportunities ELSE <<>>) \o Flatten(Tail(results))

ClaimKey(o) == o.title \o "-" \o o.organization

\* positions of the flattened input holding the first occurrence of their key
FirstPositions(flat) ==
  { n \in 1..Len(flat) : \A m \in 1..(n - 1) : ClaimKey(flat[m]) # ClaimKey(flat[n]) }

\* the n-th smallest element of a set of positions
NthOf(P, n) == CHOOSE x \in P : Cardinality({ y \in P : y < x }) = n - 1

\* C2: combineResults returns exactly the first occurrence of each key
\* title + "-" + organization, in input order; no two kept opportunities have
\* the same (title, organization).
C2_FirstOccurrenceWins ==
  Returned(combined) =>
    LET flat == Flatten(apiResults)
        P == FirstPositions(flat)
        out == combined.opportunities
    IN /\ Len(out) = Cardinality(P)
       /\ \A n \in 1..Len(out) : out[n] = flat[NthOf(P, n)]
       /\ \A m, n \in 1..Len(out) :
            (out[m].title = out[n].title /\ out[m].organization = out[n].organization)
              => m = n

\* a later opportunity with the (title, organization) of an earlier one, and a
\* different id, was dropped
C2_Witness ==
  /\ Returned(combined)
  /\ LET flat == Flatten(apiResults) IN
       /\ Len(flat) = 3
       /\ flat[1].id = "1" /\ flat[2].id = "4" /\ flat[3].id = "3"
       /\ Len(combined.opportunities) = 2

\* C3 as stated: the result is no longer than the flattened input and no
\* shorter than the number of distinct (title, organization) pairs in it.
C3_SizeBounds ==
  Returned(combined) =>
    LET flat == Flatten(apiResults) IN
      /\ Len(combined.opportunities) <= Len(flat)
      /\ Len(combined.opportunities) >=
           Cardinality({ <<flat[n].title, flat[n].organization>> : n \in 1..Len(flat) })

\* ======================================== claims on the public operations
Failed(s) == pc[s] = "rejected"
Succeeded(s) == pc[s] = "resolved"

\* the fallback record as the claims describe it
IsFallbackRecord(o) ==
  /\ o.id = "fallback-1"
  /\ o.location = location
  /\ o.category = (IF "category" \in DOMAIN filters /\ filters.category # ""
                     THEN filters.category ELSE "environment")

FallbackKey == "Community Cleanup Event" \o "-" \o "Local Environmental Group"

\* C4: when the network calls of all three sources fail (non-2xx status, network
\* error or malformed JSON, in any combination), searchAllSources resolves with
\* exactly one opportunity: the record "fallback-1" with the input location and
\* with category filters.category, or "environment" when that is absent or empty.
C4_AllFailGivesFallback ==
  (aggPc = "resolved" /\ \A s \in Sources : Failed(s)) =>
    /\ DOMAIN aggRet = {"opportunities"}
    /\ Len(aggRet.opportunities) = 1
    /\ IsFallbackRecord(aggRet.opportunities[1])

\* the three sources failed in the three different ways and the search resolved,
\* with a category given
C4_Witness ==
  /\ aggPc = "resolved"
  /\ pc["vm"] = "rejected" /\ pc["js"] = "rejected" /\ pc["uw"] = "rejected"
  /\ ret["vm"] = "HTTP error" /\ ret["js"] = "network error" /\ ret["uw"] = "parse error"
  /\ Get(filters, "category") = "education"
  /\ location = "20001"

\* C5 as stated: every public operation resolves, and on a failure of the
\* network call (network exception, non-2xx status, malformed body, empty result)
\* resolves with its benign value: null for geocodeLocation, the single fallback
\* record for a source search, the empty list for scrapeSite.
C5_FailuresGiveBenignValues ==
  /\ (opPc["geo"] = "resolved"
        /\ (Failed("geo") \/ (Succeeded("geo") /\ ret["geo"] = [array |-> <<>>])))
       => opRet["geo"] = Null
  /\ \A s \in Sources :
       (opPc[s] = "resolved" /\ Failed(s)) =>
         /\ Len(opRet[s].opportunities) = 1
         /\ IsFallbackRecord(opRet[s].opportunities[1])
  /\ (scrPc = "resolved" /\ (scrHttp \in {"notok", "error"} \/ "parseFailed" \in DOMAIN scrRet))
       => scrRet.list = <<>>

\* C5, the part that holds: every failure gives the benign value, scrapeSite
\* included when its fetch rejects or its body does not parse.
C5_HoldsApartFromScrapeStatus ==
  /\ (opPc["geo"] = "resolved"
        /\ (Failed("geo") \/ (Succeeded("geo") /\ ret["geo"] = [array |-> <<>>])))
       => opRet["geo"] = Null
  /\ \A s \in Sources :
       (opPc[s] = "resolved" /\ Failed(s)) =>
         /\ Len(opRet[s].opportunities) = 1
         /\ IsFallbackRecord(opRet[s].opportunities[1])
  /\ (scrPc = "resolved" /\ (scrHttp = "error" \/ "parseFailed" \in DOMAIN scrRet))
       => scrRet.list = <<>>

\* C8: searchAllSources has started the three searches when it awaits, resolves
\* only when all three have settled, resolves once all three network calls have
\* settled, and stays pending for ever when one of them never settles.
C8_WaitsForAllThree ==
  /\ [](aggPc = "awaiting" => \A s \in Sources : pc[s] # "idle" /\ opPc[s] # "idle")
  /\ [](aggPc = "resolved" => \A s \in Sources : opPc[s] = "resolved")
  /\ ((aggPc = "awaiting" /\ \A s \in Sources : pc[s] \in {"resolved", "rejected"})
        ~> aggPc = "resolved")
  /\ []((aggPc = "awaiting" /\ \E s \in Sources : pc[s] = "hung") => [](aggPc = "awaiting"))

\* two searches have settled, one with data and one with the fallback, the third
\* never answers: searchAllSources is still pending
C8_Witness ==
  /\ aggPc = "awaiting"
  /\ opPc["vm"] = "resolved" /\ Succeeded("vm")
  /\ opPc["js"] = "resolved" /\ Failed("js")
  /\ pc["uw"] = "hung"

\* what the claim takes each source to contribute
ExpectedPayload(s) ==
  IF Failed(s) THEN getFallbackData(location, filters) ELSE ret[s]

ExpectedPayloads == [n \in 1..3 |-> ExpectedPayload(SourceOrder[n])]

FallbackCount(out) == Cardinality({ n \in 1..Len(out) : out[n].id = "fallback-1" })

\* every record of a source that succeeded is in the result, or an earlier record
\* with its key is
SucceededPresent(out) ==
  \A s \in Sources :
    (Succeeded(s) /\ "opportunities" \in DOMAIN ret[s]) =>
      \A m \in 1..Len(ret[s].opportunities) :
        \E n \in 1..Len(out) : ClaimKey(out[n]) = ClaimKey(ret[s].opportunities[m])

ShadowsFallback ==
  \E n \in 1..3 :
    /\ Succeeded(SourceOrder[n]) /\ "opportunities" \in DOMAIN ret[SourceOrder[n]]
    /\ \A m \in 1..n : ~Failed(SourceOrder[m])
    /\ \E r \in 1..Len(ret[SourceOrder[n]].opportunities) :
         ClaimKey(ret[SourceOrder[n]].opportunities[r]) = FallbackKey

NullBody == \E s \in Sources : Succeeded(s) /\ IsNull(ret[s])

====
